---- MODULE Spec2Model ----
(***************************************************************************)
(* Avalon score keeper (avalon_app_cloud.py): the Players and Games        *)
(* worksheets, the role-entry form of tab_input, and the statistics of     *)
(* tab_stats.                                                              *)
(*                                                                         *)
(* The Streamlit script is re-executed from the top on every interaction.  *)
(* pc is the position of the running script inside tab_input; "pills"      *)
(* means that no run is in progress (the next run starts at line 122).     *)
(* Widget return values are the inputs of a run and are drawn with \E.     *)
(* A selectbox with index=None returns None or one of its options; None is *)
(* written "" here (the code tests it with `if p:`; names are non-empty).  *)
(***************************************************************************)
EXTENDS Integers, Sequences, FiniteSets, TLC

VARIABLES
    ws_players,        \* rows of worksheet "Players": <<name, joined_at>>
    last_op,           \* the last roster operation and what it returned
    games,             \* data rows of worksheet "Games"
    pc,                \* position of the tab_input script
    selected_players,  \* st.pills selection (line 151)
    num_players,       \* len(selected_players) (line 152)
    target_good,       \* rule["good"] (line 160), -1 while not bound
    target_bad,        \* rule["bad"] (line 160), -1 while not bound
    special_chars,     \* enabled optional roles (line 167)
    role_map,          \* dict player -> role (line 172)
    pool,              \* candidates left for the singleton selectors (line 173)
    message,           \* what the run last put on the page
    sdf,               \* tab_stats: one row per (record, player)
    rk                 \* tab_stats: the leaderboard rows, in display order

rosterVars == <<ws_players, last_op>>
formVars == <<pc, selected_players, num_players, target_good, target_bad,
              special_chars, role_map, pool, message>>
statsVars == <<sdf, rk>>
vars == <<ws_players, last_op, games, pc, selected_players, num_players,
          target_good, target_bad, special_chars, role_map, pool, message,
          sdf, rk>>

-----------------------------------------------------------------------------
(* Bounds *)

\* players on the sheet when the role-entry form is explored
MaxPlayers == 6
\* players on the sheet when only the player-count guard is explored
MaxRulePlayers == 11
\* rows of the Games sheet after which no further form run is explored
MaxGames == 2
\* numbered names a user may type into the add-player box
MaxNames == 2
\* rows of the Games sheet read by tab_stats
MaxStatsGames == 2

-----------------------------------------------------------------------------
(* Generic helpers *)

Range(s) == {s[i] : i \in 1..Len(s)}

RECURSIVE SetToSeq(_)
SetToSeq(S) == IF S = {} THEN <<>>
               ELSE LET x == CHOOSE y \in S : TRUE
                    IN <<x>> \o SetToSeq(S \ {x})

\* list.remove(x): drops the first occurrence
RECURSIVE list_remove(_, _)
list_remove(s, x) ==
    IF s = <<>> THEN <<>>
    ELSE IF Head(s) = x THEN Tail(s)
    ELSE <<Head(s)>> \o list_remove(Tail(s), x)

\* d[k] = v on a dict
dict_set(d, k, v) == [x \in (DOMAIN d) \cup {k} |-> IF x = k THEN v ELSE d[x]]

empty_dict == [x \in {} |-> ""]

-----------------------------------------------------------------------------
(* Worksheet "Players" *)

HeaderRow == <<"name", "joined_at">>
Timestamp == "2026-11-02 12:00:00.000000"

col_values(ws, c) == [i \in 1..Len(ws) |-> ws[i][c]]

get_all_players(ws) ==
    LET names == col_values(ws, 1)
    IN IF Len(names) > 1 THEN Tail(names) ELSE <<>>

\* ws.find(name): row of the first cell, in row-major order, that equals the
\* query; 0 when no cell does.  The header row is searched like any other.
find(ws, query) ==
    LET hits == {i \in 1..Len(ws) : ws[i][1] = query \/ ws[i][2] = query}
    IN IF hits = {} THEN 0 ELSE CHOOSE i \in hits : \A j \in hits : i <= j

delete_rows(ws, row) == SubSeq(ws, 1, row - 1) \o SubSeq(ws, row + 1, Len(ws))

add_new_player_unchecked(ws, name) ==
    [ws |-> Append(ws, <<name, Timestamp>>), ret |-> TRUE]

add_new_player(ws, name) ==
    LET existing == get_all_players(ws)
    IN IF name \in Range(existing)
       THEN [ws |-> ws, ret |-> FALSE]
       ELSE [ws |-> Append(ws, <<name, Timestamp>>), ret |-> TRUE]

delete_player(ws, name) ==
    LET cell == find(ws, name)
    IN IF cell # 0 THEN delete_rows(ws, cell) ELSE ws

-----------------------------------------------------------------------------
(* Worksheet "Games" *)

BlueWins == "Blue(Good)"
RedWins == "Red(Evil)"
Today == "2026-11-02"

\* json.dumps of a dict of strings: the text of a JSON object, written here as
\* the sequence of its <<key, value>> members
json_dumps(d) == SetToSeq({<<k, d[k]>> : k \in DOMAIN d})

\* json.loads of such a text: the dict of its members
json_loads(text) ==
    [k \in {text[i][1] : i \in 1..Len(text)} |->
        LET last == CHOOSE i \in 1..Len(text) :
                      /\ text[i][1] = k
                      /\ \A j \in 1..Len(text) : text[j][1] = k => j <= i
        IN text[last][2]]

save_game_overwrite(gs, game_date, winner, assassination_success, role_dict) ==
    <<[game_date |-> game_date,
       winner |-> winner,
       assassination_success |-> IF assassination_success THEN "TRUE" ELSE "FALSE",
       roles |-> json_dumps(role_dict)]>>

\* ws.append_row([date_str, winner, "TRUE"/"FALSE", roles_json])
save_game(gs, game_date, winner, assassination_success, role_dict) ==
    Append(gs, [game_date |-> game_date,
                winner |-> winner,
                assassination_success |-> IF assassination_success THEN "TRUE" ELSE "FALSE",
                roles |-> json_dumps(role_dict)])

-----------------------------------------------------------------------------
(* Game rules *)

GAME_RULES_off == [n \in 5..10 |->
    CASE n = 5 -> [good |-> 3, bad |-> 2]
      [] n = 6 -> [good |-> 4, bad |-> 3]
      [] n = 7 -> [good |-> 4, bad |-> 3]
      [] n = 8 -> [good |-> 5, bad |-> 3]
      [] n = 9 -> [good |-> 6, bad |-> 3]
      [] n = 10 -> [good |-> 6, bad |-> 4]]

GAME_RULES == [n \in 5..10 |->
    CASE n = 5 -> [good |-> 3, bad |-> 2]
      [] n = 6 -> [good |-> 4, bad |-> 2]
      [] n = 7 -> [good |-> 4, bad |-> 3]
      [] n = 8 -> [good |-> 5, bad |-> 3]
      [] n = 9 -> [good |-> 6, bad |-> 3]
      [] n = 10 -> [good |-> 6, bad |-> 4]]

\* GAME_RULES.get(num_players, {"good": 0, "bad": 0})
GAME_RULES_get(n) ==
    IF n \in DOMAIN GAME_RULES THEN GAME_RULES[n] ELSE [good |-> 0, bad |-> 0]

OptionalRoles == {"Percival", "Morgana", "Mordred", "Oberon"}

-----------------------------------------------------------------------------
(* tab_input: the role-entry form *)

has_role_always(role, chars) == TRUE

\* has_percival, has_morgana, has_mordred, has_oberon
has_role(role, chars) == role \in chars

\* the options a singleton selectbox offers
selectbox_options(pl) == Range(pl)

multiselect_options_all(selected, pl) == Range(selected)

\* the options the minion multiselect offers: the pool, from which earlier
\* minions are never removed
multiselect_options(selected, pl) == Range(pl)

\* curr_bad (line 198)
curr_bad(rm) ==
    Cardinality({p \in DOMAIN rm : rm[p] \in {"Assassin", "Morgana", "Mordred", "Oberon"}})

\* bad_cnt (line 216)
bad_cnt(rm) ==
    Cardinality({p \in DOMAIN rm :
                   rm[p] \in {"Assassin", "Morgana", "Mordred", "Oberon", "Minion"}})

civilian_fill_short(selected, rm) ==
    [p \in (DOMAIN rm) \cup Range(SubSeq(selected, 1, Len(selected) - 1)) |->
        IF p \in DOMAIN rm THEN rm[p] ELSE "Civilian"]

\* for p in selected_players: if p not in role_map: role_map[p] = "Civilian"
civilian_fill(selected, rm) ==
    [p \in (DOMAIN rm) \cup Range(selected) |->
        IF p \in DOMAIN rm THEN rm[p] ELSE "Civilian"]

validation_lax(rm, bad, n) ==
    IF bad_cnt(rm) > bad THEN "bad_cnt"
    ELSE IF Cardinality(DOMAIN rm) # n THEN "len"
    ELSE "ok"

\* the checks of the submit button (lines 216-221)
validation(rm, bad, n) ==
    IF bad_cnt(rm) # bad THEN "bad_cnt"
    ELSE IF Cardinality(DOMAIN rm) # n THEN "len"
    ELSE "ok"

\* the script's locals once a run has ended
EndOfRun ==
    /\ pc' = "pills"
    /\ selected_players' = <<>>
    /\ num_players' = 0
    /\ target_good' = -1
    /\ target_bad' = -1
    /\ special_chars' = {}
    /\ role_map' = empty_dict
    /\ pool' = <<>>

\* lines 122-173: player pills, the player-count guard, the rule lookup and
\* the optional-role pills.  st.pills may return any subset of the roster; the
\* selections drawn here are the runs of consecutive roster entries (the code
\* never looks at which players were picked, only at how many).
RunHeader ==
    /\ pc = "pills"
    /\ Len(games) < MaxGames
    /\ LET current_players == get_all_players(ws_players)
       IN IF current_players = <<>>
          THEN /\ message' = "add_players"
               /\ UNCHANGED <<pc, selected_players, num_players, target_good,
                              target_bad, special_chars, role_map, pool>>
          ELSE \E first \in 1..Len(current_players), last \in 0..Len(current_players) :
                 LET sel == SubSeq(current_players, first, last)
                     n == Len(sel)
                 IN /\ selected_players' = sel
                    /\ num_players' = n
                    /\ IF n < 5
                       THEN /\ message' = "need_5"
                            /\ UNCHANGED <<pc, target_good, target_bad,
                                           special_chars, role_map, pool>>
                       ELSE IF n > 10
                       THEN /\ message' = "max_10"
                            /\ UNCHANGED <<pc, target_good, target_bad,
                                           special_chars, role_map, pool>>
                       ELSE /\ target_good' = GAME_RULES_get(n).good
                            /\ target_bad' = GAME_RULES_get(n).bad
                            /\ special_chars' \in SUBSET OptionalRoles
                            /\ role_map' = empty_dict
                            /\ pool' = sel
                            /\ message' = ""
                            /\ pc' = "merlin"
    /\ UNCHANGED <<rosterVars, games, statsVars>>

\* one singleton selector: p = st.selectbox(label, pool, index=None);
\* if p: role_map[p] = role; pool.remove(p)
selectbox_step(role, shown, next) ==
    /\ IF shown
       THEN \E p \in selectbox_options(pool) \cup {""} :
              IF p # ""
              THEN /\ role_map' = dict_set(role_map, p, role)
                   /\ pool' = list_remove(pool, p)
              ELSE UNCHANGED <<role_map, pool>>
       ELSE UNCHANGED <<role_map, pool>>
    /\ pc' = next
    /\ UNCHANGED <<selected_players, num_players, target_good, target_bad,
                   special_chars, message, rosterVars, games, statsVars>>

SelectMerlin == pc = "merlin" /\ selectbox_step("Merlin", TRUE, "percival")

SelectPercival ==
    pc = "percival"
    /\ selectbox_step("Percival", has_role("Percival", special_chars), "assassin")

SelectAssassin == pc = "assassin" /\ selectbox_step("Assassin", TRUE, "morgana")

SelectMorgana ==
    pc = "morgana"
    /\ selectbox_step("Morgana", has_role("Morgana", special_chars), "mordred")

SelectMordred ==
    pc = "mordred"
    /\ selectbox_step("Mordred", has_role("Mordred", special_chars), "oberon")

SelectOberon ==
    pc = "oberon"
    /\ selectbox_step("Oberon", has_role("Oberon", special_chars), "minions")

\* lines 198-203: the minion quota and the minion multiselect
SelectMinions ==
    /\ pc = "minions"
    /\ LET needed == target_bad - curr_bad(role_map)
       IN IF needed > 0
          THEN \E p_mins \in SUBSET multiselect_options(selected_players, pool) :
                 /\ Cardinality(p_mins) <= needed
                 /\ role_map' = [p \in (DOMAIN role_map) \cup p_mins |->
                                   IF p \in p_mins THEN "Minion" ELSE role_map[p]]
          ELSE UNCHANGED role_map
    /\ pc' = "fill"
    /\ UNCHANGED <<selected_players, num_players, target_good, target_bad,
                   special_chars, pool, message, rosterVars, games, statsVars>>

\* lines 206-207: the Civilian default-fill
CivilianFill ==
    /\ pc = "fill"
    /\ role_map' = civilian_fill(selected_players, role_map)
    /\ pc' = "submit"
    /\ UNCHANGED <<selected_players, num_players, target_good, target_bad,
                   special_chars, pool, message, rosterVars, games, statsVars>>

\* lines 210-225: winner radio, assassination checkbox and the submit button;
\* the run ends here whether or not the button was pressed
Submit ==
    /\ pc = "submit"
    /\ \E winner \in {BlueWins, RedWins}, pressed \in BOOLEAN :
       \E assassination \in (IF winner = RedWins THEN BOOLEAN ELSE {FALSE}) :
         LET result == validation(role_map, target_bad, num_players)
         IN IF ~pressed
            THEN message' = "" /\ UNCHANGED games
            ELSE IF result # "ok"
            THEN message' = result /\ UNCHANGED games
            ELSE /\ games' = save_game(games, Today, winner, assassination, role_map)
                 /\ message' = "saved"
    /\ EndOfRun
    /\ UNCHANGED <<rosterVars, statsVars>>

\* an interaction while the script is running: the run is abandoned and the
\* script starts again from the top
Rerun ==
    /\ pc \notin {"pills", "submit"}
    /\ message' = ""
    /\ EndOfRun
    /\ UNCHANGED <<rosterVars, games, statsVars>>

-----------------------------------------------------------------------------
(* Specifications *)

PlayerName(i) == ToString(i)

\* the Players sheet with k numbered players
SheetOf(k) == <<HeaderRow>> \o [i \in 1..k |-> <<PlayerName(i), Timestamp>>]

\* records already on the Games sheet when the form is opened
PriorRecords ==
    {[game_date |-> "2026-11-01", winner |-> w, assassination_success |-> "FALSE",
      roles |-> json_dumps([p \in {"1", "2", "3", "4", "5"} |->
                   CASE p = "1" -> "Merlin"
                     [] p = "2" -> "Assassin"
                     [] p = "3" -> "Minion"
                     [] OTHER -> "Civilian"])] : w \in {BlueWins}}

FormIdle ==
    /\ pc = "pills"
    /\ selected_players = <<>>
    /\ num_players = 0
    /\ target_good = -1
    /\ target_bad = -1
    /\ special_chars = {}
    /\ role_map = empty_dict
    /\ pool = <<>>
    /\ message = ""

InitForm ==
    /\ ws_players = SheetOf(MaxPlayers)
    /\ last_op = [op |-> "none", name |-> "", ret |-> FALSE]
    /\ games \in [1..(MaxGames - 1) -> PriorRecords]
    /\ FormIdle
    /\ sdf = <<>>
    /\ rk = <<>>

NextForm ==
    \/ RunHeader
    \/ SelectMerlin
    \/ SelectPercival
    \/ SelectAssassin
    \/ SelectMorgana
    \/ SelectMordred
    \/ SelectOberon
    \/ SelectMinions
    \/ CivilianFill
    \/ Submit
    \/ Rerun

SpecForm == InitForm /\ [][NextForm]_vars

-----------------------------------------------------------------------------
(* Player management (lines 123-145) *)

\* names typed into the add-player box; two of them are the header cells
RosterNames == {"name", "joined_at"} \cup {PlayerName(i) : i \in 1..MaxNames}

\* lines 129-136: the add button with a non-empty name
AddPlayer ==
    /\ \E new_name \in RosterNames :
         LET r == add_new_player(ws_players, new_name)
         IN /\ ws_players' = r.ws
            /\ last_op' = [op |-> "add", name |-> new_name, ret |-> r.ret]
    /\ UNCHANGED <<games, formVars, statsVars>>

\* lines 138-145: the delete button with a name picked from the roster
DeletePlayer ==
    /\ LET current_players == get_all_players(ws_players)
       IN /\ current_players # <<>>
          /\ \E to_delete \in Range(current_players) :
               /\ ws_players' = delete_player(ws_players, to_delete)
               /\ last_op' = [op |-> "delete", name |-> to_delete, ret |-> FALSE]
    /\ UNCHANGED <<games, formVars, statsVars>>

InitRoster ==
    /\ ws_players = <<HeaderRow>>
    /\ last_op = [op |-> "none", name |-> "", ret |-> FALSE]
    /\ games = <<>>
    /\ FormIdle
    /\ sdf = <<>>
    /\ rk = <<>>

NextRoster == AddPlayer \/ DeletePlayer

SpecRoster == InitRoster /\ [][NextRoster]_vars

-----------------------------------------------------------------------------
(* The player-count guard alone, on a roster large enough to exceed it *)

InitRules ==
    /\ ws_players = SheetOf(MaxRulePlayers)
    /\ last_op = [op |-> "none", name |-> "", ret |-> FALSE]
    /\ games = <<>>
    /\ FormIdle
    /\ sdf = <<>>
    /\ rk = <<>>

NextRules == RunHeader \/ Rerun

SpecRules == InitRules /\ [][NextRules]_vars

-----------------------------------------------------------------------------
(* tab_stats (lines 272-288) *)

is_blue_short(r) == r \in {"Merlin", "Percival"}

\* is_blue (line 280)
is_blue(r) == r \in {"Merlin", "Percival", "Civilian"}

\* is_r_win (line 278): the stored winner label contains the red label
is_r_win(winner) == winner = RedWins

\* win (line 281)
win(r, winner) ==
    (is_blue(r) /\ ~is_r_win(winner)) \/ (~is_blue(r) /\ is_r_win(winner))

\* the rows one record adds to fd (lines 277-282)
RECURSIVE fd_of_items(_, _)
fd_of_items(items, winner) ==
    IF items = <<>> THEN <<>>
    ELSE <<[Player |-> Head(items)[1], Role |-> Head(items)[2],
            Win |-> IF win(Head(items)[2], winner) THEN 1 ELSE 0]>>
         \o fd_of_items(Tail(items), winner)

\* fd over all rows of the Games sheet (lines 275-283)
RECURSIVE fd_of(_)
fd_of(df) ==
    IF df = <<>> THEN <<>>
    ELSE LET row == Head(df)
             roles == json_loads(row.roles)
         IN fd_of_items(json_dumps(roles), row.winner) \o fd_of(Tail(df))

RECURSIVE SumWin(_)
SumWin(rows) == IF rows = <<>> THEN 0 ELSE Head(rows).Win + SumWin(Tail(rows))

\* sdf[sdf["Player"] == user]
rows_of(frame, user) == SelectSeq(frame, LAMBDA row : row.Player = user)

\* sdf.groupby("Player").agg(count, sum): one row per player of the frame
groupby_agg(frame) ==
    {[Player |-> p, games |-> Len(rows_of(frame, p)), wins |-> SumWin(rows_of(frame, p))] :
       p \in {frame[i].Player : i \in 1..Len(frame)}}

\* rk["胜率"] of row a is at least that of row b (wins/games, games > 0)
rate_ge(a, b) == a.wins * b.games >= b.wins * a.games

RECURSIVE sort_values_ascending(_)
sort_values_ascending(rows) ==
    IF rows = {} THEN {<<>>}
    ELSE UNION {{<<r>> \o t : t \in sort_values_ascending(rows \ {r})} :
                  r \in {x \in rows : \A y \in rows : rate_ge(y, x)}}

\* rk.sort_values("胜率", ascending=False): the default sort kind is not
\* stable, so rows of equal win rate come out in any order
RECURSIVE sort_values(_)
sort_values(rows) ==
    IF rows = {} THEN {<<>>}
    ELSE UNION {{<<r>> \o t : t \in sort_values(rows \ {r})} :
                  r \in {x \in rows : \A y \in rows : rate_ge(x, y)}}

TabStats ==
    /\ IF games = <<>>
       THEN UNCHANGED statsVars
       ELSE /\ sdf' = fd_of(games)
            /\ rk' \in sort_values(groupby_agg(fd_of(games)))
    /\ UNCHANGED <<rosterVars, games, formVars>>

\* player names of the statistics histories, in ascending order
StatsNames == <<"1", "2", "3", "4", "5", "6">>

\* records the form can have saved: five of the six players, one Merlin, one
\* Assassin ("2" or "4"), one Minion ("3"), two Civilians
StatsRecords ==
    {[game_date |-> "2026-11-01", winner |-> w, assassination_success |-> "FALSE",
      roles |-> json_dumps([p \in Range(StatsNames) \ {absent} |->
                   IF p = a THEN "Assassin"
                   ELSE IF p = "3" THEN "Minion"
                   ELSE IF p = (IF absent = "1" THEN "6" ELSE "1") THEN "Merlin"
                   ELSE "Civilian"])] :
       w \in {BlueWins, RedWins}, absent \in {"1", "6"}, a \in {"2", "4"}}

InitStats ==
    /\ ws_players = SheetOf(Len(StatsNames))
    /\ last_op = [op |-> "none", name |-> "", ret |-> FALSE]
    /\ games \in UNION {[1..k -> StatsRecords] : k \in 0..MaxStatsGames}
    /\ FormIdle
    /\ sdf = <<>>
    /\ rk = <<>>

NextStats == TabStats

SpecStats == InitStats /\ [][NextStats]_vars

-----------------------------------------------------------------------------
(* Properties *)

GoodFaction == {"Merlin", "Percival", "Civilian"}
EvilFaction == {"Assassin", "Morgana", "Mordred", "Oberon", "Minion"}

Holders(rm, roleset) == {p \in DOMAIN rm : rm[p] \in roleset}

\* the role map of the record a step has just appended
SavedRoles(gs) == json_loads(gs[Len(gs)].roles)

\* the (good, evil) pairs of the rule table as the specification lists them
StatedCounts == [n \in 5..10 |->
    CASE n = 5 -> <<3, 2>>
      [] n = 6 -> <<4, 2>>
      [] n = 7 -> <<4, 3>>
      [] n = 8 -> <<5, 3>>
      [] n = 9 -> <<6, 3>>
      [] n = 10 -> <<6, 4>>]

\* C1: every record on the Games sheet has exactly one Merlin and exactly one
\* Assassin.
C1_OneMerlinOneAssassin ==
    \A i \in 1..Len(games) :
        LET roles == json_loads(games[i].roles)
        IN /\ Cardinality(Holders(roles, {"Merlin"})) = 1
           /\ Cardinality(Holders(roles, {"Assassin"})) = 1

\* C2: a record saved for a roster of n players has as many evil roles as the
\* rule table gives for n, and as many good roles as the table gives for n.
C2_FactionCounts ==
    [][Len(games') > Len(games) =>
         \A roles \in {SavedRoles(games')} :
            /\ num_players \in 5..10
            /\ Cardinality(Holders(roles, GoodFaction)) = StatedCounts[num_players][1]
            /\ Cardinality(Holders(roles, EvilFaction)) = StatedCounts[num_players][2]]_vars

\* a record of six players, one of them a Minion, has been saved
C2_Witness ==
    /\ Len(games) = MaxGames
    /\ Cardinality(DOMAIN SavedRoles(games)) = 6
    /\ Holders(SavedRoles(games), {"Minion"}) # {}
    /\ message = "saved"

\* C3: after the Civilian fill the keys of the role map are exactly the
\* selected players, and so are the keys of every record that is saved.
C3_KeysAreRoster ==
    [][/\ pc' = "submit" =>
            /\ DOMAIN role_map' = Range(selected_players')
            /\ Cardinality(DOMAIN role_map') = num_players'
       /\ Len(games') > Len(games) =>
            \A roles \in {SavedRoles(games')} :
               /\ DOMAIN roles = Range(selected_players)
               /\ Cardinality(DOMAIN roles) = num_players]_vars

\* the fill has run on a selection that leaves a roster player out and has
\* made somebody a Civilian
C3_Witness ==
    /\ pc = "submit"
    /\ Len(selected_players) < Len(get_all_players(ws_players))
    /\ Holders(role_map, {"Civilian"}) # {}
    /\ Holders(role_map, {"Merlin"}) # {}

\* C4: each optional role is held by at most one player, and by nobody when
\* it is not enabled.
C4_OptionalRoles ==
    \A r \in OptionalRoles :
        /\ Cardinality(Holders(role_map, {r})) <= 1
        /\ r \notin special_chars => Holders(role_map, {r}) = {}

\* an assignment is complete with Morgana held while Percival is disabled
C4_Witness ==
    /\ pc = "submit"
    /\ Holders(role_map, {"Morgana"}) # {}
    /\ "Percival" \notin special_chars
    /\ "Oberon" \in special_chars

\* C5: a submit that fails validation leaves the Games sheet as it was; a
\* submit that passes appends one record and changes no earlier one; no other
\* step of the form writes to the sheet.
C5_SubmitAtomic ==
    [][LET invalid == \/ Cardinality(Holders(role_map, EvilFaction)) # target_bad
                      \/ Cardinality(DOMAIN role_map) # num_players
       IN /\ pc # "submit" => games' = games
          /\ (pc = "submit" /\ invalid) => games' = games
          /\ (pc = "submit" /\ message' \in {"bad_cnt", "len"}) =>
                invalid /\ games' = games
          /\ (pc = "submit" /\ message' = "saved") =>
                /\ ~invalid
                /\ Len(games') = Len(games) + 1
                /\ SubSeq(games', 1, Len(games)) = games
                /\ SavedRoles(games') = role_map]_vars

\* a submit has been rejected for its evil count, with a record already stored
C5_Witness ==
    /\ message = "bad_cnt"
    /\ pc = "pills"
    /\ Len(games) = MaxGames - 1
    /\ Len(games) > 0

NoDuplicates(s) == \A i, j \in 1..Len(s) : s[i] = s[j] => i = j

\* C6: the roster never holds a name twice; adding a name that is in the
\* roster returns False and leaves the roster as it was, adding a new name
\* returns True and appends that name.
C6_RosterUnique ==
    [][/\ NoDuplicates(get_all_players(ws_players'))
       /\ last_op'.op = "add" =>
            LET before == get_all_players(ws_players)
                after == get_all_players(ws_players')
            IN IF last_op'.name \in Range(before)
               THEN last_op'.ret = FALSE /\ after = before
               ELSE last_op'.ret = TRUE /\ after = Append(before, last_op'.name)]_vars

\* an add was refused while the roster holds two names
C6_Witness ==
    /\ last_op.op = "add"
    /\ last_op.ret = FALSE
    /\ Len(get_all_players(ws_players)) >= 2

\* C7: for every player the stats count one game per record that contains the
\* player, and one win per such record whose winning faction is the player's;
\* a player in no record has no stats row.
C7_StatsCounts ==
    sdf # <<>> =>
      \A p \in Range(StatsNames) :
        LET played == {i \in 1..Len(games) : p \in DOMAIN json_loads(games[i].roles)}
            won == {i \in played :
                      IF json_loads(games[i].roles)[p] \in GoodFaction
                      THEN games[i].winner = BlueWins
                      ELSE games[i].winner = RedWins}
            board == {i \in 1..Len(rk) : rk[i].Player = p}
        IN /\ Len(rows_of(sdf, p)) = Cardinality(played)
           /\ IF played = {}
              THEN board = {}
              ELSE /\ Cardinality(board) = 1
                   /\ \A i \in board : /\ rk[i].games = Cardinality(played)
                                       /\ rk[i].wins = Cardinality(won)

\* the stats of a two-record history in which somebody played only once and
\* somebody else won one of two games
C7_Witness ==
    /\ Len(games) = 2
    /\ rk # <<>>
    /\ \E i \in 1..Len(rk) : rk[i].games = 1
    /\ \E i \in 1..Len(rk) : rk[i].games = 2 /\ rk[i].wins = 1

NameRank(p) == CHOOSE i \in 1..Len(StatsNames) : StatsNames[i] = p

C9_RuleTable ==
    /\ \A n \in 5..10 :
         /\ <<GAME_RULES_get(n).good, GAME_RULES_get(n).bad>> = StatedCounts[n]
         /\ GAME_RULES_get(n).good + GAME_RULES_get(n).bad = n
    /\ (target_good # -1 \/ target_bad # -1 \/ pc # "pills") =>
         /\ num_players \in 5..10
         /\ <<target_good, target_bad>> = StatedCounts[num_players]
    /\ num_players \notin 5..10 => target_good = -1 /\ target_bad = -1

\* the form has looked up the counts for ten selected players
C9_Witness ==
    /\ pc = "merlin"
    /\ num_players = 10
    /\ target_good = 6
    /\ target_bad = 4

\* C10: within one run no step replaces a role already in the role map, and
\* the minion step leaves the pool as it found it.
C10_NoReassign ==
    [][/\ pc' # "pills" =>
            \A p \in DOMAIN role_map :
                p \in DOMAIN role_map' /\ role_map'[p] = role_map[p]
       /\ (pc = "minions" /\ pc' = "fill") => pool' = pool]_vars

\* a finished assignment with a Merlin, and a Minion who is still in the pool
C10_Witness ==
    /\ pc = "submit"
    /\ Holders(role_map, {"Merlin"}) # {}
    /\ Holders(role_map, {"Assassin"}) # {}
    /\ \E p \in Holders(role_map, {"Minion"}) : p \in Range(pool)

====
